---- MODULE Spec2Model ----
(***************************************************************************)
(* Model of the EcoDev utilities:                                          *)
(*   check_uniqueness.py  check_list_uniqueness(items)                     *)
(*   send_batch.py        load_problems / write_jsonl /                    *)
(*                        create_and_send_batch / main                     *)
(* Spec is a run of check_list_uniqueness, SpecBatch a run of              *)
(* send_batch.main.                                                        *)
(***************************************************************************)
EXTENDS Integers, Sequences, FiniteSets, TLC

\* ---------------------------------------------------------------- bounds
MaxLen == 4        \* longest item collection handed to the checker
NumItems == 3      \* number of distinct item values
MaxProblems == 2   \* longest problem list handed to send_batch
MaxStr == 1        \* longest problem text, in characters

Items == 1..NumItems

\* ------------------------------------------------------------- variables
VARIABLES
    items,        \* check_list_uniqueness: the argument (the caller's list object)
    pc,           \* check_list_uniqueness: control position
    idx,          \* number of elements the for loop has consumed
    seen,         \* local set `seen`
    duplicates,   \* local set `duplicates`
    stdout,       \* what has been printed so far, one entry per print call
    problem_list, \* send_batch: what data/problem_list.py provides
    file,         \* the file at JSONL_PATH
    server_files, \* files held by the API, a file's id is its position
    server_batches, \* batch jobs held by the API
    bpc,          \* main: control position
    problems,     \* main: local `problems`
    widx,         \* write_jsonl: number of entries written
    batch_input_file, \* create_and_send_batch: id of the uploaded file
    exc,          \* main: the exception caught by `except Exception`
    raised,       \* the exception leaving main, if any
    ret,          \* main's return value
    exit_status   \* the status the process ends with

cvars == <<items, pc, idx, seen, duplicates, stdout>>

bvars == <<problem_list, file, server_files, server_batches, bpc, problems,
           widx, batch_input_file, exc, raised, ret, exit_status>>

vars == <<cvars, bvars>>

\* ------------------------------------------------------ general helpers
Range(s) == {s[k] : k \in DOMAIN s}

Count(s, x) == Cardinality({k \in DOMAIN s : s[k] = x})

Prefix(s, n) == SubSeq(s, 1, n)

\* ------------------------------------------------- check_uniqueness.py
MsgUnique == "All items in the list are unique!"
MsgDuplicate == "There are duplicate items in the list."
MsgFound == "Duplicate items found:"

\* Mutant: an empty list is taken for a list with duplicates
\* (`if items and len(items) == len(set(items))`).
FastPathTruthy(S) == Len(S) > 0 /\ Len(S) = Cardinality(Range(S))

\* Mutant: the length comparison is off by one and lets one repeat through.
FastPathOffByOne(S) == Len(S) <= Cardinality(Range(S)) + 1

\* len(items) == len(set(items))
FastPath(S) == Len(S) = Cardinality(Range(S))

\* Mutant: every visited item is added to duplicates.
ScanBodyAddAlways(item, sn, dp) == <<sn \cup {item}, dp \cup {item}>>

\* Mutant: `duplicates = {item}` instead of `duplicates.add(item)`.
ScanBodyAssign(item, sn, dp) ==
    IF item \in sn THEN <<sn, {item}>>
                   ELSE <<sn \cup {item}, dp>>

\* Mutant: a further repeat of a value takes it out of duplicates again.
ScanBodyToggle(item, sn, dp) ==
    IF item \in sn
    THEN <<sn, IF item \in dp THEN dp \ {item} ELSE dp \cup {item}>>
    ELSE <<sn \cup {item}, dp>>

\* One iteration of the for loop: the new <<seen, duplicates>>.
ScanBody(item, sn, dp) ==
    IF item \in sn THEN <<sn, dp \cup {item}>>
                   ELSE <<sn \cup {item}, dp>>

\* The for loop run over S from position k+1 on.
RECURSIVE Scan(_, _, _, _)
Scan(S, k, sn, dp) ==
    IF k = Len(S) THEN <<sn, dp>>
    ELSE LET r == ScanBody(S[k + 1], sn, dp) IN Scan(S, k + 1, r[1], r[2])

\* list(duplicates): every element once, in an order the set decides.
ListOf(S) == {l \in [1..Cardinality(S) -> S] : Range(l) = S}

\* The whole call as a function of its argument: what it prints,
\* with the duplicate list taken as a set.
check_list_uniqueness(S) ==
    IF FastPath(S) THEN [verdict |-> MsgUnique, dups |-> {}, scanned |-> FALSE]
    ELSE [verdict |-> MsgDuplicate, dups |-> Scan(S, 0, {}, {})[2], scanned |-> TRUE]

InitCheck ==
    /\ items \in UNION {[1..n -> Items] : n \in 0..MaxLen}
    /\ pc = "call"
    /\ idx = 0
    /\ seen = {}
    /\ duplicates = {}
    /\ stdout = <<>>

PrintUnique ==
    /\ pc = "call"
    /\ FastPath(items)
    /\ stdout' = Append(stdout, <<MsgUnique>>)
    /\ pc' = "done"
    /\ UNCHANGED <<items, idx, seen, duplicates, bvars>>

PrintDuplicate ==
    /\ pc = "call"
    /\ ~FastPath(items)
    /\ stdout' = Append(stdout, <<MsgDuplicate>>)
    /\ seen' = {}
    /\ duplicates' = {}
    /\ idx' = 0
    /\ pc' = "scan"
    /\ UNCHANGED <<items, bvars>>

\* Mutant: the loop consumes the caller's list (`item = items.pop(0)`).
ScanStepPop ==
    /\ pc = "scan"
    /\ idx < Len(items)
    /\ LET r == ScanBody(Head(items), seen, duplicates)
       IN  seen' = r[1] /\ duplicates' = r[2]
    /\ items' = Tail(items)
    /\ UNCHANGED <<idx, pc, stdout, bvars>>

ScanStep ==
    /\ pc = "scan"
    /\ idx < Len(items)
    /\ LET r == ScanBody(items[idx + 1], seen, duplicates)
       IN  seen' = r[1] /\ duplicates' = r[2]
    /\ idx' = idx + 1
    /\ UNCHANGED <<items, pc, stdout, bvars>>

PrintFound ==
    /\ pc = "scan"
    /\ idx = Len(items)
    /\ \E l \in ListOf(duplicates) : stdout' = Append(stdout, <<MsgFound, l>>)
    /\ pc' = "done"
    /\ UNCHANGED <<items, idx, seen, duplicates, bvars>>

\* ------------------------------------------------------- send_batch.py
None == -1         \* an unbound name / no value yet

MODEL == "o4-mini"
EFFORT == "high"
JSONL_STEM == "ecodev_2000_problems"

\* Characters a problem text is made of: a plain letter, a line feed and a
\* backslash (two of the characters json.dumps has to escape).
Chars == {"n", "\n", "\\"}

Strings == UNION {[1..n -> Chars] : n \in 0..MaxStr}

\* A file left at JSONL_PATH by something else.
StaleFile == [exists |-> TRUE, data |-> <<"s", "t", "a", "l", "e", "\n", "x", "\n", "y", "\n", "z">>]

NoFile == [exists |-> FALSE, data |-> <<>>]

\* json.dumps of a str, without the surrounding quotes.
RECURSIVE JsonString(_)
JsonString(s) ==
    IF s = <<>> THEN <<>>
    ELSE LET c == Head(s)
             e == IF c = "\n" THEN <<"\\", "n">>
                  ELSE IF c = "\\" THEN <<"\\", "\\">>
                  ELSE <<c>>
         IN  e \o JsonString(Tail(s))

\* The dict built for the idx-th problem.
Entry(i, problem) ==
    [custom_id |-> "request-" \o ToString(i),
     method |-> "POST",
     url |-> "/v1/chat/completions",
     body |-> [model |-> MODEL,
               messages |-> <<[role |-> "user", content |-> problem]>>,
               reasoning_effort |-> EFFORT]]

\* json.dumps(entry, ensure_ascii=False): keys and fixed values are single
\* tokens, the message content is spelled out character by character.
JsonDumps(entry) ==
    <<"{", "custom_id", entry.custom_id, "method", entry.method,
      "url", entry.url, "body", "{", "model", entry.body.model,
      "messages", "[">>
    \o <<"{", "role", entry.body.messages[1].role, "content", "\"">>
    \o JsonString(entry.body.messages[1].content)
    \o <<"\"", "}", "]", "reasoning_effort", entry.body.reasoning_effort,
         "}", "}">>

InitBatchEnv ==
    /\ problem_list \in
          {[kind |-> "ImportError", value |-> <<>>],
           [kind |-> "not a list", value |-> <<>>]}
          \cup {[kind |-> "list", value |-> v] :
                   v \in UNION {[1..n -> Strings] : n \in 0..MaxProblems}}
    /\ file \in {NoFile, StaleFile}
    /\ server_files \in {<<>>, <<StaleFile.data>>}

BatchStart ==
    /\ server_batches = <<>>
    /\ problems = <<>>
    /\ widx = 0
    /\ batch_input_file = None
    /\ exc = "none"
    /\ raised = "none"
    /\ ret = None
    /\ exit_status = None

\* load_problems: the import fails.
LoadImportError ==
    /\ bpc = "load"
    /\ problem_list.kind = "ImportError"
    /\ raised' = "SystemExit"
    /\ bpc' = "raised"
    /\ UNCHANGED <<cvars, problem_list, file, server_files, server_batches,
                   problems, widx, batch_input_file, exc, ret, exit_status>>

\* load_problems: `problems` is not a list.
LoadNotAList ==
    /\ bpc = "load"
    /\ problem_list.kind = "not a list"
    /\ raised' = "SystemExit"
    /\ bpc' = "raised"
    /\ UNCHANGED <<cvars, problem_list, file, server_files, server_batches,
                   problems, widx, batch_input_file, exc, ret, exit_status>>

\* Mutant: main goes on to write_jsonl without looking at the list.
LoadOkUnchecked ==
    /\ bpc = "load"
    /\ problem_list.kind = "list"
    /\ problems' = problem_list.value
    /\ bpc' = "write_open"
    /\ UNCHANGED <<cvars, problem_list, file, server_files, server_batches,
                   widx, batch_input_file, exc, raised, ret, exit_status>>

LoadOk ==
    /\ bpc = "load"
    /\ problem_list.kind = "list"
    /\ problems' = problem_list.value
    /\ bpc' = "check_empty"
    /\ UNCHANGED <<cvars, problem_list, file, server_files, server_batches,
                   widx, batch_input_file, exc, raised, ret, exit_status>>

\* main: `if not problems: return 1`
EmptyReturn ==
    /\ bpc = "check_empty"
    /\ problems = <<>>
    /\ ret' = 1
    /\ bpc' = "returned"
    /\ UNCHANGED <<cvars, problem_list, file, server_files, server_batches,
                   problems, widx, batch_input_file, exc, raised, exit_status>>

NotEmpty ==
    /\ bpc = "check_empty"
    /\ problems # <<>>
    /\ bpc' = "write_open"
    /\ UNCHANGED <<cvars, problem_list, file, server_files, server_batches,
                   problems, widx, batch_input_file, exc, raised, ret,
                   exit_status>>

\* Mutant: the file is opened for appending (`path.open("a")`).
WriteOpenAppend ==
    /\ bpc = "write_open"
    /\ file' = [exists |-> TRUE, data |-> file.data]
    /\ widx' = 0
    /\ bpc' = "write_loop"
    /\ UNCHANGED <<cvars, problem_list, server_files, server_batches,
                   problems, batch_input_file, exc, raised, ret, exit_status>>

\* write_jsonl: path.open("w") creates or truncates the file.
WriteOpen ==
    /\ bpc = "write_open"
    /\ file' = [exists |-> TRUE, data |-> <<>>]
    /\ widx' = 0
    /\ bpc' = "write_loop"
    /\ UNCHANGED <<cvars, problem_list, server_files, server_batches,
                   problems, batch_input_file, exc, raised, ret, exit_status>>

\* write_jsonl: one pass of the enumerate loop.
WriteLine ==
    /\ bpc = "write_loop"
    /\ widx < Len(problems)
    /\ file' = [file EXCEPT !.data =
                   @ \o JsonDumps(Entry(widx + 1, problems[widx + 1])) \o <<"\n">>]
    /\ widx' = widx + 1
    /\ UNCHANGED <<cvars, problem_list, server_files, server_batches, bpc,
                   problems, batch_input_file, exc, raised, ret, exit_status>>

\* write_jsonl: opening or writing the file fails; nothing in main catches it.
WriteError ==
    /\ bpc \in {"write_open", "write_loop"}
    /\ raised' = "OSError"
    /\ bpc' = "raised"
    /\ UNCHANGED <<cvars, problem_list, file, server_files, server_batches,
                   problems, widx, batch_input_file, exc, ret, exit_status>>

\* write_jsonl returns: the loop is over and the with block has closed the file.
WriteClose ==
    /\ bpc = "write_loop"
    /\ widx = Len(problems)
    /\ bpc' = "upload"
    /\ UNCHANGED <<cvars, problem_list, file, server_files, server_batches,
                   problems, widx, batch_input_file, exc, raised, ret,
                   exit_status>>

\* create_and_send_batch: client.files.create succeeds.
UploadOk ==
    /\ bpc = "upload"
    /\ server_files' = Append(server_files, file.data)
    /\ batch_input_file' = Len(server_files) + 1
    /\ bpc' = "create_batch"
    /\ UNCHANGED <<cvars, problem_list, file, server_batches, problems, widx,
                   exc, raised, ret, exit_status>>

\* Mutant: main has no try/except around create_and_send_batch.
UploadFailUncaught ==
    /\ bpc = "upload"
    /\ exc' = "upload"
    /\ raised' = "Exception"
    /\ bpc' = "raised"
    /\ UNCHANGED <<cvars, problem_list, file, server_files, server_batches,
                   problems, widx, batch_input_file, ret, exit_status>>

\* create_and_send_batch: building the client, opening the file or the
\* upload raises; main catches it and returns 1.
UploadFail ==
    /\ bpc = "upload"
    /\ exc' = "upload"
    /\ ret' = 1
    /\ bpc' = "returned"
    /\ UNCHANGED <<cvars, problem_list, file, server_files, server_batches,
                   problems, widx, batch_input_file, raised, exit_status>>

\* Mutant: the batch names a fixed file id instead of the uploaded one.
CreateBatchOkWrongFile ==
    /\ bpc = "create_batch"
    /\ server_batches' = Append(server_batches,
          [input_file_id |-> 1,
           endpoint |-> "/v1/chat/completions",
           completion_window |-> "24h",
           description |-> JSONL_STEM])
    /\ bpc' = "batch_created"
    /\ UNCHANGED <<cvars, problem_list, file, server_files, problems, widx,
                   batch_input_file, exc, raised, ret, exit_status>>

\* create_and_send_batch: client.batches.create succeeds.
CreateBatchOk ==
    /\ bpc = "create_batch"
    /\ server_batches' = Append(server_batches,
          [input_file_id |-> batch_input_file,
           endpoint |-> "/v1/chat/completions",
           completion_window |-> "24h",
           description |-> JSONL_STEM])
    /\ bpc' = "batch_created"
    /\ UNCHANGED <<cvars, problem_list, file, server_files, problems, widx,
                   batch_input_file, exc, raised, ret, exit_status>>

\* create_and_send_batch: client.batches.create raises; main returns 1.
CreateBatchFail ==
    /\ bpc = "create_batch"
    /\ exc' = "batch"
    /\ ret' = 1
    /\ bpc' = "returned"
    /\ UNCHANGED <<cvars, problem_list, file, server_files, server_batches,
                   problems, widx, batch_input_file, raised, exit_status>>

\* main: `return 0`
ReturnOk ==
    /\ bpc = "batch_created"
    /\ ret' = 0
    /\ bpc' = "returned"
    /\ UNCHANGED <<cvars, problem_list, file, server_files, server_batches,
                   problems, widx, batch_input_file, exc, raised, exit_status>>

\* sys.exit(main())
ExitReturned ==
    /\ bpc = "returned"
    /\ exit_status' = ret
    /\ bpc' = "exited"
    /\ UNCHANGED <<cvars, problem_list, file, server_files, server_batches,
                   problems, widx, batch_input_file, exc, raised, ret>>

\* sys.exit(1) inside load_problems, or an exception nothing catches: the
\* interpreter ends the process with status 1.
ExitRaised ==
    /\ bpc = "raised"
    /\ exit_status' = 1
    /\ bpc' = "exited"
    /\ UNCHANGED <<cvars, problem_list, file, server_files, server_batches,
                   problems, widx, batch_input_file, exc, raised, ret>>

\* ------------------------------------------------------ specifications
CheckIdle ==
    /\ items = <<>>
    /\ pc = "idle"
    /\ idx = 0
    /\ seen = {}
    /\ duplicates = {}
    /\ stdout = <<>>

BatchIdle ==
    /\ problem_list = [kind |-> "list", value |-> <<>>]
    /\ file = NoFile
    /\ server_files = <<>>
    /\ bpc = "idle"
    /\ BatchStart

Init == InitCheck /\ BatchIdle

Next ==
    \/ PrintUnique
    \/ PrintDuplicate
    \/ ScanStep
    \/ PrintFound

Spec == Init /\ [][Next]_vars

InitBatch == CheckIdle /\ InitBatchEnv /\ bpc = "load" /\ BatchStart

NextBatch ==
    \/ LoadImportError
    \/ LoadNotAList
    \/ LoadOk
    \/ EmptyReturn
    \/ NotEmpty
    \/ WriteOpen
    \/ WriteLine
    \/ WriteError
    \/ WriteClose
    \/ UploadOk
    \/ UploadFail
    \/ CreateBatchOk
    \/ CreateBatchFail
    \/ ReturnOk
    \/ ExitReturned
    \/ ExitRaised

SpecBatch == InitBatch /\ [][NextBatch]_vars

\* ------------------------------------------------- properties: checker
\* What the call has printed, read back from stdout.
Verdict == stdout[1][1]

ReportedList == IF Len(stdout) >= 2 THEN stdout[2][2] ELSE <<>>

ReportedDups == Range(ReportedList)

VerdictCount ==
    Cardinality({k \in DOMAIN stdout : stdout[k][1] \in {MsgUnique, MsgDuplicate}})

Repeated(S) == {x \in Range(S) : Count(S, x) >= 2}

Perms(S) == {[k \in DOMAIN S |-> S[f[k]]] : f \in Permutations(DOMAIN S)}

\* The checker without the fast path: always the detailed scan.
AlwaysScan(S) ==
    LET d == Scan(S, 0, {}, {})[2]
    IN  [verdict |-> IF d = {} THEN MsgUnique ELSE MsgDuplicate, dups |-> d]

\* C1: when some value occurs at least twice, the finished call has printed
\* the 'duplicate' verdict and a duplicate list whose values are exactly the
\* values of multiplicity >= 2 (none of multiplicity 1, none missing).
C1_DuplicatesExact ==
    (pc = "done" /\ Repeated(items) # {}) =>
        /\ Len(stdout) = 2
        /\ stdout[1] = <<MsgDuplicate>>
        /\ stdout[2][1] = MsgFound
        /\ ReportedDups = {x \in Items : Count(items, x) >= 2}
        /\ duplicates = ReportedDups
        /\ \A x \in Items : Count(items, x) = 1 => x \notin ReportedDups

C1_Witness ==
    /\ pc = "done"
    /\ \E x, y \in Items : Count(items, x) >= 2 /\ Count(items, y) = 1
    /\ Len(stdout) = 2

\* C2: the finished call has printed the 'unique' verdict iff no value occurs
\* more than once (the empty list included); with the 'unique' verdict nothing
\* else is printed; and every call prints exactly one of the two verdicts.
C2_UniqueIff ==
    /\ VerdictCount <= 1
    /\ pc = "done" =>
        /\ VerdictCount = 1
        /\ Verdict \in {MsgUnique, MsgDuplicate}
        /\ (Verdict = MsgUnique) <=> (\A x \in Items : Count(items, x) <= 1)
        /\ Verdict = MsgUnique => (Len(stdout) = 1 /\ ReportedDups = {})

C2_Witness ==
    /\ pc = "done"
    /\ items = <<>>
    /\ stdout = <<(<<MsgUnique>>)>>

\* C3: the verdict and the duplicate set printed for items are the verdict
\* and the duplicate set of the call on every permutation of items.
C3_OrderIndependent ==
    pc = "done" =>
        \A P \in Perms(items) :
            /\ check_list_uniqueness(P).verdict = Verdict
            /\ check_list_uniqueness(P).dups = ReportedDups

C3_Witness ==
    /\ pc = "done"
    /\ Cardinality(ReportedDups) >= 2
    /\ \E P \in Perms(items) : P # items /\ P[1] # items[1]

C5_FastPathEquivalent ==
    /\ FastPath(items) <=> (Scan(items, 0, {}, {})[2] = {})
    /\ check_list_uniqueness(items).verdict = AlwaysScan(items).verdict
    /\ check_list_uniqueness(items).dups = AlwaysScan(items).dups
    /\ pc = "done" =>
        /\ Verdict = AlwaysScan(items).verdict
        /\ ReportedDups = AlwaysScan(items).dups

C5_Witness ==
    /\ pc = "done"
    /\ Len(items) >= 2
    /\ FastPath(items)
    /\ Len(stdout) = 1

\* C10: while and after the loop runs, seen is the set of values of the
\* prefix consumed so far, duplicates the set of its values occurring at least
\* twice (each held once, however often it repeats), duplicates is a subset of
\* seen, and the loop ends after one step per element.
C10_LoopInvariant ==
    /\ pc = "scan" =>
        /\ idx \in 0..Len(items)
        /\ seen = Range(Prefix(items, idx))
        /\ duplicates = Repeated(Prefix(items, idx))
        /\ duplicates \subseteq seen
    /\ (pc = "done" /\ Len(stdout) = 2) =>
        /\ idx = Len(items)
        /\ seen = Range(items)
        /\ duplicates = Repeated(items)
        /\ Len(ReportedList) = Cardinality(ReportedDups)
        /\ \A x \in duplicates : Count(ReportedList, x) = 1

C10_Witness ==
    /\ pc = "scan"
    /\ \E x \in Items : Count(Prefix(items, idx), x) >= 3
    /\ duplicates # {}

\* ---------------------------------------------- properties: send_batch
\* The lines of a file: the text before each line feed, and what follows
\* the last one if anything does.
RECURSIVE SplitLines(_, _, _)
SplitLines(d, cur, acc) ==
    IF d = <<>> THEN (IF cur = <<>> THEN acc ELSE Append(acc, cur))
    ELSE IF Head(d) = "\n" THEN SplitLines(Tail(d), <<>>, Append(acc, cur))
    ELSE SplitLines(Tail(d), Append(cur, Head(d)), acc)

Lines(d) == SplitLines(d, <<>>, <<>>)

\* Reading a JSON string back (json.loads).
RECURSIVE JsonUnescape(_)
JsonUnescape(e) ==
    IF e = <<>> THEN <<>>
    ELSE IF Head(e) = "\\" /\ Len(e) >= 2
         THEN (IF e[2] = "n" THEN <<"\n">> ELSE <<e[2]>>)
              \o JsonUnescape(SubSeq(e, 3, Len(e)))
         ELSE <<Head(e)>> \o JsonUnescape(Tail(e))

RequestIds ==
    <<"request-1", "request-2", "request-3", "request-4", "request-5", "request-6">>

\* line is the record of the k-th problem: identifier request-k, the fixed
\* method, url, model and effort, and one user message holding the problem.
IsRecordOf(line, k, problem) ==
    /\ Len(line) >= 25
    /\ SubSeq(line, 1, 18) =
          <<"{", "custom_id", RequestIds[k], "method", "POST",
            "url", "/v1/chat/completions", "body", "{", "model", "o4-mini",
            "messages", "[", "{", "role", "user", "content", "\"">>
    /\ SubSeq(line, Len(line) - 6, Len(line)) =
          <<"\"", "}", "]", "reasoning_effort", "high", "}", "}">>
    /\ JsonUnescape(SubSeq(line, 19, Len(line) - 7)) = problem
    /\ Count(line, "role") = 1

\* write_jsonl has returned to main.
WriteReturned ==
    /\ problems # <<>>
    /\ raised = "none"
    /\ bpc \in {"upload", "create_batch", "batch_created", "returned", "exited"}

\* C6: the upload starts only once the JSONL file is completely written,
\* the batch job is created only after a successful upload and names the id
\* of the file uploaded, and main returns 0 only after both succeeded.
C6_StepOrder ==
    /\ (bpc = "upload" \/ batch_input_file # None \/ exc # "none") =>
          /\ file.exists
          /\ Len(problems) > 0
          /\ widx = Len(problems)
          /\ Len(Lines(file.data)) = Len(problems)
    /\ batch_input_file # None =>
          /\ batch_input_file \in DOMAIN server_files
          /\ server_files[batch_input_file] = file.data
          /\ exc # "upload"
    /\ server_batches # <<>> =>
          /\ Len(server_batches) = 1
          /\ batch_input_file # None
          /\ server_batches[1].input_file_id = batch_input_file
    /\ ret = 0 =>
          /\ batch_input_file # None
          /\ Len(server_batches) = 1
          /\ exc = "none"
    /\ exit_status = 0 => ret = 0

C6_Witness ==
    /\ bpc = "exited"
    /\ exit_status = 0
    /\ batch_input_file = 2
    /\ server_batches[1].input_file_id = 2

\* C7: a failure of the upload or of the batch creation is caught in main:
\* main returns 1 and no exception leaves it; after a failed upload no batch
\* job was attempted and the written JSONL file is still there.
C7_ApiFailureCaught ==
    /\ exc # "none" =>
          /\ ret = 1
          /\ raised = "none"
          /\ bpc \in {"returned", "exited"}
          /\ bpc = "exited" => exit_status = 1
    /\ exc = "upload" =>
          /\ batch_input_file = None
          /\ server_batches = <<>>
          /\ file.exists
          /\ Len(Lines(file.data)) = Len(problems)
    /\ exc = "batch" => server_batches = <<>>

C7_Witness ==
    /\ exc = "upload"
    /\ bpc = "exited"
    /\ exit_status = 1
    /\ Len(problems) = 2

\* The problem list cannot be imported, is not a list, or is empty.
BadInput == problem_list.kind # "list" \/ problem_list.value = <<>>

\* C8: with a problem list that cannot be imported, is not a list or is
\* empty, the run ends with status 1, the JSONL file is never touched,
\* nothing is uploaded and no batch job is created.
C8_BadInputStopsEarly ==
    /\ [](BadInput =>
            /\ bpc \in {"load", "check_empty", "raised", "returned", "exited"}
            /\ batch_input_file = None
            /\ server_batches = <<>>
            /\ exit_status \in {None, 1}
            /\ bpc = "exited" => exit_status = 1)
    /\ [][BadInput =>
            /\ file' = file
            /\ server_files' = server_files
            /\ server_batches' = server_batches]_vars

C8_Witness ==
    /\ bpc = "exited"
    /\ problem_list = [kind |-> "list", value |-> <<>>]
    /\ file = StaleFile
    /\ exit_status = 1

\* C9: once write_jsonl has returned, the file holds exactly one line per
\* problem, in input order; line k is the record with identifier request-k
\* and a single user message whose content is the k-th problem; identifiers
\* are pairwise distinct; nothing of the file's earlier content is left.
C9_OneRecordPerProblem ==
    /\ bpc = "write_loop" => Len(Lines(file.data)) = widx
    /\ WriteReturned =>
          /\ file.exists
          /\ LET L == Lines(file.data)
             IN  /\ Len(L) = Len(problems)
                 /\ \A k \in DOMAIN L : IsRecordOf(L[k], k, problems[k])
                 /\ \A j, k \in DOMAIN L : j # k => L[j][3] # L[k][3]
          /\ file.data[Len(file.data)] = "\n"

C9_Witness ==
    /\ WriteReturned
    /\ Len(problems) = 2
    /\ problems[1] = problems[2]
    /\ "\n" \in Range(problems[1])

====
